---- MODULE Spec2Model ----
(***************************************************************************)
(* Model of jupyter_smart_on_fhir/server_extension.py: the three request   *)
(* handlers of the SMART-on-FHIR authorization flow (Launch, Login,        *)
(* Callback), the process-wide settings dictionary they share, the signed  *)
(* cookies each browser holds, and the outbound token-exchange POST.       *)
(***************************************************************************)
EXTENDS Integers, FiniteSets, Sequences, TLC

\* ---------------------------------------------------------------- bounds
MaxReq      == 4    \* requests handled in one behaviour
MaxLogins   == 2    \* state ids / verifiers the random source hands out
NumBrowsers == 2
NumIssuers  == 2
NumTokens   == 2    \* distinct access tokens an issuer may return

\* ------------------------------------------------------------- constants
smart_path    == "/smart"
login_path    == "/smart/login"
callback_path == "/smart/oauth_callback"

Absent == -1        \* query argument not given / Python None
Empty  == 0         \* empty string, empty cookie, empty slot
Unset  == -2        \* key not present in the settings dictionary

Browsers  == 1..NumBrowsers
Issuers   == 1..NumIssuers
StateIds  == 1..MaxLogins
Verifiers == (MaxLogins + 1)..(MaxLogins + MaxLogins)
Tokens    == 1..NumTokens
Codes     == {1}
Hints     == {1}
Origins   == {"http://localhost:8888", "http://localhost:9999"}
ConfiguredUri == "https://app.example.org/smart/oauth_callback"

\* a request URI / redirect target: path plus the two Launch arguments
Uri(p, i, l) == [path |-> p, iss |-> i, launch |-> l]
NoUri        == Uri("", Absent, Absent)

\* SMARTConfig: the discovered issuer configuration
NoConfig == [fhir_url |-> Unset, auth_url |-> Unset, token_url |-> Unset]

\* SMARTConfig.from_url: the endpoints published by issuer i
SMARTConfig_from_url(i) == [fhir_url |-> i, auth_url |-> i, token_url |-> i]

\* status of the response when SMARTConfig.from_url fails (a 4xx-class error)
discovery_error_status == 400

\* a challenge that is the verifier itself (the PKCE "plain" method)
code_challenge_plain(v) == <<"plain", v>>

\* base64.urlsafe_b64encode(sha256(verifier)).rstrip("="): a one-way,
\* collision-free image of the verifier
code_challenge(v) == <<"S256", v>>

\* urljoin(self.request.full_url(), url_path_join(self.base_url, callback_path))
derived_redirect_uri(origin) == origin \o callback_path

\* the redirect_uri of the authorization request (SMARTLoginHandler.get)
authorization_redirect_uri(configured, origin) ==
    IF configured # "" THEN configured ELSE derived_redirect_uri(origin)

\* a token exchange that forgets the configured redirect URI
token_redirect_uri_derived(configured, origin) == derived_redirect_uri(origin)

\* the redirect_uri of the token-exchange POST (token_for_code)
token_redirect_uri(configured, origin) ==
    IF configured # "" THEN configured ELSE derived_redirect_uri(origin)

\* status the handlers give to every web.HTTPError they raise themselves
http_error_status == 400

\* an exchange failure wrapped in the handlers' own web.HTTPError
exception_as_http_error == http_error_status

\* status of a response to a request whose handler raised something other than
\* web.HTTPError
uncaught_exception_status == 500

\* a Launch that never looks at the slot and always starts a login
no_token_ignored(token) == TRUE

\* the test the other way round: `if token`
no_token_inverted(token) == token # Empty

\* `if not token` in SMARTAuthHandler.get
no_token(token) == token = Empty

\* a Launch without the issuer check
no_issuer_unchecked(fhir_url) == FALSE

\* `if not fhir_url` in SMARTAuthHandler.get
no_issuer(fhir_url) == fhir_url = Empty

\* a callback without the empty-code check
no_code_unchecked(code) == FALSE

\* `if not code` in SMARTCallbackHandler.get
no_code(code) == code = Empty

\* a callback without the state-cookie check
no_state_cookie_unchecked(state_id) == FALSE

\* `if state_id is None` in SMARTCallbackHandler.get
no_state_cookie(state_id) == state_id = Empty

\* a callback without the state comparison
state_mismatch_unchecked(arg_state, state_id) == FALSE

\* `if arg_state != state_id` in SMARTCallbackHandler.get
state_mismatch(arg_state, state_id) == arg_state # state_id

\* a Launch that leaves next_url as it finds it
next_url_not_recorded(held, uri) == held

\* self.settings["next_url"] = self.request.uri
next_url_recorded(held, uri) == uri

VARIABLES
    cfg,        \* traits copied by initialize_settings: redirect uri, default issuer
    settings,   \* process-wide slots: smart_token, smart_config, launch, next_url
    environ,    \* os.environ["SMART_TOKEN"]
    cookies,    \* per browser: signed cookies state_id, next_url, code_verifier
    inflight,   \* callback requests suspended in the token-exchange fetch
    resp,       \* the most recent HTTP response
    post,       \* the most recent POST to a token endpoint
    logins,     \* history: the authorization redirect issued for each state id
    usedStates, \* state ids already drawn from the random source
    launched,   \* per browser: URI of its last Launch that was redirected to Login
    failed,     \* per browser: a callback failed since its last Login
    consumed,   \* per state id: the code of a callback that succeeded with it
    nposts,     \* per state id: POSTs issued after validating it
    nreq        \* requests handled so far

vars == <<cfg, settings, environ, cookies, inflight, resp, post, logins,
          usedStates, launched, failed, consumed, nposts, nreq>>

NoCookies == [state_id |-> Empty, next_url |-> NoUri, code_verifier |-> Empty]

\* a response, with the request it answers: the callback's arguments (haserr,
\* code, state) and the state_id cookie it carried (sid), and the issuer whose
\* configuration the handler fetched while serving it (discovery)
NoResp == [handler |-> "", uri |-> NoUri, status |-> 0, error |-> "",
           location |-> NoUri, discovery |-> Unset,
           token |-> Empty, haserr |-> FALSE, code |-> Absent,
           state |-> Absent, sid |-> Empty, afterFailure |-> FALSE]

NoPost == [n |-> 0, browser |-> 0, token_url |-> Unset, code |-> Absent,
           code_verifier |-> Empty, redirect_uri |-> "", state_id |-> Empty,
           origin |-> "", replay |-> FALSE, afterFailure |-> FALSE]

NoRequest == [aud |-> Unset, state |-> Empty, launch |-> "",
              redirect_uri |-> "", client_id |-> "", code_challenge |-> <<"", 0>>,
              code_challenge_method |-> "", response_type |-> "", scope |-> ""]

NoLogin == [browser |-> 0, code_verifier |-> Empty, request |-> NoRequest,
            auth_url |-> Unset, config |-> NoConfig, launch_uri |-> NoUri,
            origin |-> "", launch |-> Unset]

Init ==
    /\ cfg \in [redirect_uri : {"", ConfiguredUri}, default_issuer : {Empty, 1}]
    /\ settings = [smart_token |-> Empty, smart_config |-> NoConfig,
                   launch |-> Unset, next_url |-> NoUri]
    /\ environ = Empty
    /\ cookies = [b \in Browsers |-> NoCookies]
    /\ inflight = {}
    /\ resp = NoResp
    /\ post = NoPost
    /\ logins = [s \in StateIds |-> NoLogin]
    /\ usedStates = {}
    /\ launched = [b \in Browsers |-> NoUri]
    /\ failed = [b \in Browsers |-> FALSE]
    /\ consumed = [s \in StateIds |-> Absent]
    /\ nposts = [s \in StateIds |-> 0]
    /\ nreq = 0

\* tornado.web.authenticated: an unauthenticated GET is sent to the server's
\* login page and the handler body does not run
Unauthenticated(h, b) ==
    /\ resp' = [NoResp EXCEPT !.handler = h, !.status = 302,
                              !.error = "Unauthenticated",
                              !.location = Uri("/login", Absent, Absent)]
    /\ UNCHANGED <<cfg, settings, environ, cookies, inflight, post, logins,
                   usedStates, launched, failed, consumed, nposts>>

\* GET /smart?iss=..&launch=..
SMARTAuthHandler_get(b, authed, iss, launch, discovered) ==
    /\ nreq < MaxReq
    /\ nreq' = nreq + 1
    /\ IF ~authed THEN Unauthenticated("launch", b)
       ELSE
       LET fhir_url == IF iss = Absent THEN cfg.default_issuer ELSE iss
           uri      == Uri(smart_path, iss, launch)
           R        == [NoResp EXCEPT !.handler = "launch", !.uri = uri]
           token    == settings.smart_token
       IN
       IF no_issuer(fhir_url) THEN
            /\ resp' = [R EXCEPT !.status = http_error_status,
                                 !.error = "ConfigurationError"]
            /\ UNCHANGED <<cfg, settings, environ, cookies, inflight, post,
                           logins, usedStates, launched, failed, consumed, nposts>>
       ELSE IF ~discovered THEN
            /\ resp' = [R EXCEPT !.status = discovery_error_status,
                                 !.error = "DiscoveryError",
                                 !.discovery = fhir_url]
            /\ UNCHANGED <<cfg, settings, environ, cookies, inflight, post,
                           logins, usedStates, launched, failed, consumed, nposts>>
       ELSE IF no_token(token) THEN
            /\ settings' = [settings EXCEPT
                              !.launch = launch,
                              !.smart_config = SMARTConfig_from_url(fhir_url),
                              !.next_url = next_url_recorded(@, uri)]
            /\ resp' = [R EXCEPT !.status = 302, !.discovery = fhir_url,
                                 !.location = Uri(login_path, Absent, Absent)]
            /\ launched' = [launched EXCEPT ![b] = uri]
            /\ UNCHANGED <<cfg, environ, cookies, inflight, post, logins,
                           usedStates, failed, consumed, nposts>>
       ELSE
            /\ settings' = [settings EXCEPT
                              !.launch = launch,
                              !.smart_config = SMARTConfig_from_url(fhir_url)]
            /\ environ' = token
            /\ resp' = [R EXCEPT !.status = 200, !.token = token,
                                 !.discovery = fhir_url]
            /\ UNCHANGED <<cfg, cookies, inflight, post, logins, usedStates,
                           launched, failed, consumed, nposts>>

\* the arguments of a request the authentication guard turns away are never
\* read: one representative of them is enough
Args(authed, S, unread) == IF authed THEN S ELSE {unread}

Launch ==
    \E b \in Browsers, authed \in BOOLEAN :
      \E iss \in Args(authed, {Absent, Empty} \cup Issuers, Absent),
         launch \in Args(authed, {Absent} \cup Hints, Absent),
         discovered \in Args(authed, BOOLEAN, TRUE) :
        SMARTAuthHandler_get(b, authed, iss, launch, discovered)

\* secrets.token_urlsafe: a value never handed out before (the first one left)
Fresh(S, used) == IF S \ used = {} THEN Empty
                  ELSE CHOOSE x \in S \ used : \A y \in S \ used : x <= y

\* generate_state(): a fresh random state id; no next_url is passed in
generate_state(s) == [state_id |-> s, next_url |-> NoUri]

\* urlencode's treatment of a parameter value: it is passed through str(), so
\* None goes out as the text "None"
quote_via_str(v) == IF v = Absent THEN "None" ELSE ToString(v)

\* a redirect that draws a second state id instead of sending the one it
\* stored in the cookie
AuthorizationRequest_second_state(config, state, v, origin) ==
    [aud                   |-> config.fhir_url,
     state                 |-> Fresh(StateIds, usedStates \cup {state.state_id}),
     launch                |-> quote_via_str(settings.launch),
     redirect_uri          |-> authorization_redirect_uri(cfg.redirect_uri, origin),
     client_id             |-> "client_id",
     code_challenge        |-> code_challenge(v),
     code_challenge_method |-> "S256",
     response_type         |-> "code",
     scope                 |-> "openid profile fhirUser launch patient/*.*"]

\* the query string of the authorization redirect (urlencode(headers))
AuthorizationRequest(config, state, v, origin) ==
    [aud                   |-> config.fhir_url,
     state                 |-> state.state_id,
     launch                |-> quote_via_str(settings.launch),
     redirect_uri          |-> authorization_redirect_uri(cfg.redirect_uri, origin),
     client_id             |-> "client_id",
     code_challenge        |-> code_challenge(v),
     code_challenge_method |-> "S256",
     response_type         |-> "code",
     scope                 |-> "openid profile fhirUser launch patient/*.*"]

\* a Login that goes on with whatever the slot holds
smart_config_defaulted(config) == FALSE

\* self.settings["smart_config"] raises KeyError until a Launch has stored a
\* configuration
smart_config_missing(config) == config = NoConfig

\* GET /smart/login
SMARTLoginHandler_get(b, authed, origin) ==
    /\ nreq < MaxReq
    /\ nreq' = nreq + 1
    /\ IF ~authed THEN Unauthenticated("login", b)
       ELSE
       LET s      == Fresh(StateIds, usedStates)
           v      == Fresh(Verifiers, {logins[t].code_verifier : t \in StateIds})
           state  == generate_state(s)
           R      == [NoResp EXCEPT !.handler = "login", !.sid = state.state_id]
           ck1    == [cookies[b] EXCEPT !.state_id = state.state_id]
           ck2    == IF state.next_url # NoUri
                     THEN [ck1 EXCEPT !.next_url = state.next_url] ELSE ck1
           config == settings.smart_config
       IN
       /\ s # Empty
       /\ usedStates' = usedStates \cup {s}
       /\ IF smart_config_missing(config) THEN
            \* KeyError on settings["smart_config"]: the cookies written so
            \* far still go out with the error response
            /\ cookies' = [cookies EXCEPT ![b] = ck2]
            /\ resp' = [R EXCEPT !.status = uncaught_exception_status,
                                 !.error = "KeyError"]
            /\ UNCHANGED <<cfg, settings, environ, inflight, post, logins,
                           launched, failed, consumed, nposts>>
          ELSE
            /\ v # Empty
            /\ cookies' = [cookies EXCEPT ![b] = [ck2 EXCEPT !.code_verifier = v]]
            /\ logins' = [logins EXCEPT ![s] =
                 [browser       |-> b,
                  code_verifier |-> v,
                  request       |-> AuthorizationRequest(config, state, v, origin),
                  auth_url      |-> config.auth_url,
                  config        |-> config,
                  launch_uri    |-> launched[b],
                  origin        |-> origin,
                  launch        |-> settings.launch]]
            /\ resp' = [R EXCEPT !.status = 302,
                                 !.location = Uri("authorize", config.auth_url, Absent)]
            /\ failed' = [failed EXCEPT ![b] = FALSE]
            /\ UNCHANGED <<cfg, settings, environ, inflight, post, launched,
                           consumed, nposts>>

Login ==
    \E b \in Browsers, authed \in BOOLEAN, origin \in Origins :
        SMARTLoginHandler_get(b, authed, origin)

\* a verifier kept process-wide: the one the latest Login generated
last_generated_code_verifier(b) ==
    LET vs == {logins[t].code_verifier : t \in StateIds}
    IN  CHOOSE v \in vs : \A w \in vs : w <= v

\* self.get_signed_cookie("code_verifier") of a request sent by browser b
signed_cookie_code_verifier(b) == cookies[b].code_verifier

\* self.settings["smart_config"].token_url, read when the fetch is issued
token_url == settings.smart_config.token_url

\* self.settings["next_url"], read when the token reply has arrived
next_url == settings.next_url

\* a slot that keeps the first token it was given
smart_token_kept(held, access_token) ==
    IF held = Empty THEN access_token ELSE held

\* self.settings["smart_token"] = await self.token_for_code(code): the new
\* token replaces whatever the slot held
smart_token_assigned(held, access_token) == access_token

\* the form body of the token-exchange POST built by token_for_code, with
\* what the suspended request remembers until the reply arrives
token_for_code(b, code, state_id, origin) ==
    [n             |-> post.n + 1,
     browser       |-> b,
     token_url     |-> token_url,
     code          |-> code,
     code_verifier |-> signed_cookie_code_verifier(b),
     redirect_uri  |-> token_redirect_uri(cfg.redirect_uri, origin),
     state_id      |-> state_id,
     origin        |-> origin,
     replay        |-> consumed[state_id] = code,
     afterFailure  |-> failed[b]]

\* a fetch that is issued again when it has failed
token_fetch_retried(r, reply) ==
    IF reply = "ok" THEN post ELSE [r EXCEPT !.n = post.n + 1]

\* token_for_code awaits a single fetch and re-raises its failure: the reply
\* to the fetch of request r is followed by no further POST
token_fetch_after_reply(r, reply) == post

\* GET /smart/oauth_callback?code=..&state=.. up to the await of the fetch
SMARTCallbackHandler_get(b, authed, haserr, code, arg_state, origin) ==
    /\ nreq < MaxReq
    /\ nreq' = nreq + 1
    /\ IF ~authed THEN Unauthenticated("callback", b)
       ELSE
       LET state_id == cookies[b].state_id
           R == [NoResp EXCEPT !.handler = "callback", !.haserr = haserr,
                               !.code = code, !.state = arg_state,
                               !.sid = state_id, !.afterFailure = failed[b]]
           Fail(status, error) ==
               /\ resp' = [R EXCEPT !.status = status, !.error = error]
               /\ failed' = [failed EXCEPT ![b] = TRUE]
               /\ UNCHANGED <<cfg, settings, environ, cookies, inflight, post,
                              logins, usedStates, launched, consumed, nposts>>
       IN
       IF haserr THEN Fail(http_error_status, "IssuerError")
       \* get_argument("code") raises MissingArgumentError
       ELSE IF code = Absent THEN Fail(http_error_status, "MissingArgument")
       ELSE IF no_code(code) THEN Fail(http_error_status, "NoCode")
       ELSE IF no_state_cookie(state_id)
            THEN Fail(http_error_status, "MissingStateCookie")
       \* get_argument("state") raises MissingArgumentError
       ELSE IF arg_state = Absent THEN Fail(http_error_status, "MissingArgument")
       ELSE IF arg_state = Empty THEN Fail(http_error_status, "MissingStateArgument")
       ELSE IF state_mismatch(arg_state, state_id)
            THEN Fail(http_error_status, "StateMismatch")
       \* token_for_code: None.decode on a missing code_verifier cookie
       ELSE IF signed_cookie_code_verifier(b) = Empty
            THEN Fail(uncaught_exception_status, "AttributeError")
       \* token_for_code: settings["smart_config"] not set
       ELSE IF settings.smart_config = NoConfig
            THEN Fail(uncaught_exception_status, "KeyError")
       ELSE
            /\ \A r \in inflight : r.browser # b
            /\ post' = token_for_code(b, code, state_id, origin)
            /\ inflight' = inflight \cup {post'}
            /\ nposts' = [nposts EXCEPT ![state_id] = @ + 1]
            \* no response yet: the request is suspended in the fetch
            /\ resp' = [R EXCEPT !.error = "pending"]
            /\ UNCHANGED <<cfg, settings, environ, cookies, logins,
                           usedStates, launched, failed, consumed>>

Callback ==
    \E b \in Browsers, authed \in BOOLEAN, origin \in Origins :
      \E haserr \in Args(authed, BOOLEAN, FALSE),
         code \in Args(authed, {Absent, Empty} \cup Codes, Absent),
         arg_state \in Args(authed, {Absent, Empty} \cup StateIds, Absent) :
        SMARTCallbackHandler_get(b, authed, haserr, code, arg_state, origin)

\* the fetch of a suspended callback request r completes: the rest of
\* token_for_code and of SMARTCallbackHandler.get
SMARTCallbackHandler_resume(r, reply, token) ==
    LET R == [NoResp EXCEPT !.handler = "callback", !.code = r.code,
                            !.state = r.state_id, !.sid = r.state_id,
                            !.afterFailure = r.afterFailure]
    IN
    /\ r \in inflight
    /\ inflight' = inflight \ {r}
    /\ IF reply = "ok" THEN
            /\ settings' = [settings EXCEPT
                              !.smart_token = smart_token_assigned(@, token)]
            /\ consumed' = [consumed EXCEPT ![r.state_id] = r.code]
            /\ resp' = IF next_url = NoUri
                       THEN [R EXCEPT !.status = uncaught_exception_status,
                                      !.error = "KeyError", !.token = token]
                       ELSE [R EXCEPT !.status = 302, !.token = token,
                                      !.location = next_url]
            /\ UNCHANGED failed
       ELSE
            \* HTTPClientError re-raised, AttributeError on e.response of a
            \* timeout, or KeyError on a reply without access_token
            /\ resp' = [R EXCEPT !.status = uncaught_exception_status,
                                 !.error = reply]
            /\ failed' = [failed EXCEPT ![r.browser] = TRUE]
            /\ UNCHANGED <<settings, consumed>>
    /\ post' = token_fetch_after_reply(r, reply)
    /\ UNCHANGED <<cfg, environ, cookies, logins, usedStates, launched,
                   nposts, nreq>>

TokenReply ==
    \E r \in inflight, token \in Tokens,
       reply \in {"ok", "HTTPClientError", "NetworkError", "NoAccessToken"} :
        SMARTCallbackHandler_resume(r, reply, token)

Next == Launch \/ Login \/ Callback \/ TokenReply

Spec == Init /\ [][Next]_vars

\* ------------------------------------------------------------------ claims

\* the step handles a callback request whose handler body ran
CallbackHandled == /\ nreq' # nreq
                   /\ resp'.handler = "callback"
                   /\ resp'.error # "Unauthenticated"

\* the step issued no POST and left the token slot alone
NoExchange == /\ post' = post
              /\ inflight' = inflight
              /\ nposts' = nposts
              /\ settings'.smart_token = settings.smart_token

\* C1: a callback whose `state` argument differs from the state_id cookie the
\* browser holds is answered 400, issues no POST to the token endpoint and
\* leaves settings["smart_token"] unchanged; the error is the state-mismatch
\* one whenever the request got as far as the comparison.
C1_StateMismatchRejected ==
    [][ (CallbackHandled /\ resp'.sid # Empty /\ resp'.state # resp'.sid)
        => /\ resp'.status = 400
           /\ NoExchange
           /\ (~resp'.haserr /\ resp'.code \notin {Absent, Empty}
               /\ resp'.state \notin {Absent, Empty})
              => resp'.error = "StateMismatch" ]_vars

\* a state mismatch was answered while a token was held
C1_Witness ==
    /\ resp.handler = "callback"
    /\ resp.error = "StateMismatch"
    /\ resp.sid # Empty /\ resp.state \in StateIds /\ resp.state # resp.sid
    /\ settings.smart_token # Empty

\* C8: a callback with no `code` or an empty one, even when its `state`
\* matches the stored state_id, is answered 400 with the missing-code error
\* (unless the issuer's `error` argument is reported first), issues no POST
\* and leaves the token slot unchanged.
C8_MissingCodeRejected ==
    [][ (CallbackHandled /\ resp'.code \in {Absent, Empty})
        => /\ resp'.status = 400
           /\ NoExchange
           /\ ~resp'.haserr => resp'.error \in {"MissingArgument", "NoCode"} ]_vars

\* a callback with a matching state but an empty code was answered
C8_Witness ==
    /\ resp.handler = "callback"
    /\ resp.code = Empty /\ ~resp.haserr
    /\ resp.sid # Empty /\ resp.state = resp.sid
    /\ resp.error = "NoCode"

\* C9: a Launch that passes discovery stores the discovered configuration
\* and then branches on the token slot: with no token it records its own URI
\* as next_url and redirects to Login, delivering nothing; with a token it
\* answers 200, puts exactly that token in $SMART_TOKEN and does not redirect.
C9_LaunchBranchesOnToken ==
    [][ (nreq' # nreq /\ resp'.handler = "launch" /\ resp'.error = "")
        => /\ settings'.smart_config = SMARTConfig_from_url(
                    IF resp'.uri.iss = Absent THEN cfg.default_issuer
                                              ELSE resp'.uri.iss)
           /\ IF settings.smart_token = Empty
              THEN /\ resp'.status = 302
                   /\ resp'.location = Uri(login_path, Absent, Absent)
                   /\ resp'.token = Empty
                   /\ environ' = environ
                   /\ settings'.next_url = resp'.uri
              ELSE /\ resp'.status = 200
                   /\ resp'.location = NoUri
                   /\ resp'.token = settings.smart_token
                   /\ environ' = settings.smart_token
                   /\ settings'.next_url = settings.next_url ]_vars

\* a Launch found a token in the slot and delivered it
C9_Witness ==
    /\ resp.handler = "launch"
    /\ resp.status = 200
    /\ resp.token # Empty
    /\ environ = resp.token

\* the authorization redirect of the attempt the latest POST belongs to
Attempt == logins[post.state_id]

\* the latest response is a callback's success redirect
CallbackSucceeded ==
    resp.handler = "callback" /\ resp.status = 302 /\ resp.error = ""

\* C2: a callback replaying a code/state pair that has already succeeded
\* does not reach the token endpoint: a state id is accepted at most once.
C2_ReplayRejected == post.n > 0 => ~post.replay

\* C3: a callback succeeds only if no callback of that browser has failed
\* since its last Login.
C3_FailureTerminatesAttempt == CallbackSucceeded => ~resp.afterFailure

\* C4: the code_verifier of every token-exchange POST is the verifier
\* generated by the Login that generated the state id matched in the
\* callback, the one whose S256 challenge that Login's redirect carried.
C4_OriginalVerifier ==
    post.n > 0 =>
        /\ Attempt.browser = post.browser
        /\ Attempt.request.state = post.state_id
        /\ post.code_verifier = Attempt.code_verifier
        /\ Attempt.request.code_challenge = code_challenge(post.code_verifier)

\* a POST was issued after two browsers had each logged in
C4_Witness ==
    /\ post.n > 0
    /\ post.code_verifier \in Verifiers
    /\ \E s \in StateIds : logins[s].browser \notin {0, post.browser}

\* C5: the POST of an attempt's callback goes to the token endpoint of the
\* issuer configuration its Login built the authorization redirect from.
C5_OwnTokenEndpoint == post.n > 0 => post.token_url = Attempt.config.token_url

\* C6: a successful callback redirects to the URI of the Launch that started
\* its own attempt.
C6_OwnNextUrl ==
    (CallbackSucceeded /\ logins[resp.sid].launch_uri # NoUri)
        => resp.location = logins[resp.sid].launch_uri

\* C7 as stated: the redirect_uri of the POST is identical to the one of the
\* attempt's authorization request, for every Login and callback request.
C7_RedirectUriIdentical ==
    post.n > 0 => post.redirect_uri = Attempt.request.redirect_uri

\* C7: both are the configured redirect URI when one is set, and otherwise
\* each is derived from the origin of its own request; they are identical
\* when a redirect URI is configured or both requests came to one origin.
C7_RedirectUriReproduced ==
    post.n > 0 =>
        /\ cfg.redirect_uri # "" =>
              /\ post.redirect_uri = cfg.redirect_uri
              /\ Attempt.request.redirect_uri = cfg.redirect_uri
        /\ cfg.redirect_uri = "" =>
              /\ post.redirect_uri = post.origin \o callback_path
              /\ Attempt.request.redirect_uri = Attempt.origin \o callback_path
        /\ (cfg.redirect_uri # "" \/ post.origin = Attempt.origin)
              => post.redirect_uri = Attempt.request.redirect_uri

\* with a configured redirect URI, a callback arrived on another origin than
\* its Login and still posted the same redirect_uri
C7_Witness ==
    /\ post.n > 0
    /\ cfg.redirect_uri # ""
    /\ post.origin # Attempt.origin
    /\ post.redirect_uri = Attempt.request.redirect_uri

ExchangeErrors == {"HTTPClientError", "NetworkError", "NoAccessToken"}
ClientErrors   == {"IssuerError", "MissingArgument", "NoCode",
                   "MissingStateCookie", "MissingStateArgument", "StateMismatch"}

LaunchHandled == /\ nreq' # nreq
                 /\ resp'.handler = "launch"
                 /\ resp'.error # "Unauthenticated"

\* C11: a Launch with no `iss` argument (or an empty one) while no default
\* issuer is configured is answered with the 400 configuration error before
\* discovery: it fetches no issuer configuration, issues no POST, and leaves
\* launch, smart_config, next_url and smart_token as they were.
C11_NoIssuerRejected ==
    [][ (LaunchHandled
         /\ (resp'.uri.iss = Empty
             \/ (resp'.uri.iss = Absent /\ cfg.default_issuer = Empty)))
        => /\ resp'.status = 400
           /\ resp'.error = "ConfigurationError"
           /\ resp'.discovery = Unset
           /\ NoExchange
           /\ settings' = settings
           /\ environ' = environ ]_vars

\* a Launch without issuer was rejected after an earlier Launch had filled
\* the slots
C11_Witness ==
    /\ resp.handler = "launch"
    /\ resp.error = "ConfigurationError"
    /\ resp.uri.iss = Absent /\ cfg.default_issuer = Empty
    /\ settings.smart_config # NoConfig
    /\ settings.next_url # NoUri

\* the Logins that issued an authorization redirect
Redirected == {s \in StateIds : logins[s].browser # 0}

\* C12: no authorization redirect carries its Login's code_verifier: the
\* verifier enters it only as code_challenge, its S256 image, announced with
\* code_challenge_method S256; two redirects built from the same
\* configuration, launch hint and origin differ in nothing but state and
\* code_challenge; the discovery fetch carries no verifier, and the verifier
\* itself goes out in the token-exchange POST.
C12_VerifierNotInRedirect ==
    /\ \A s \in Redirected :
          LET L == logins[s]
              q == L.request
          IN  /\ L.code_verifier \in Verifiers
              /\ q.code_challenge = <<"S256", L.code_verifier>>
              /\ q.code_challenge_method = "S256"
              /\ q.aud # L.code_verifier
              /\ q.state # L.code_verifier
              /\ L.auth_url # L.code_verifier
              /\ \A t \in Redirected :
                    (logins[t].config = L.config /\ logins[t].launch = L.launch
                     /\ logins[t].origin = L.origin)
                    => [q EXCEPT !.state = Empty, !.code_challenge = <<"", 0>>]
                       = [logins[t].request EXCEPT !.state = Empty,
                                                   !.code_challenge = <<"", 0>>]
    /\ resp.discovery \notin Verifiers
    /\ post.n > 0 => post.code_verifier = logins[post.state_id].code_verifier

\* two Logins issued redirects for the same configuration with different
\* verifiers, and the verifier of one of them went out in a POST
C12_Witness ==
    /\ \E s, t \in Redirected :
          /\ s # t
          /\ logins[s].config = logins[t].config
          /\ logins[s].launch = logins[t].launch
          /\ logins[s].origin = logins[t].origin
    /\ post.n > 0
    /\ post.code_verifier \in Verifiers

\* the step completes a token exchange of a suspended callback request
ExchangeCompleted == inflight' # inflight /\ inflight' \subseteq inflight

LoginRedirected ==
    resp.handler = "login" /\ resp.status = 302 /\ resp.error = ""

\* C14 as stated: the state_id and code_verifier cookies are always written
\* together by one Login, so a browser that stores a state_id stores the
\* code_verifier of the same Login with it.
C14_CookiesWrittenTogether ==
    \A b \in Browsers :
        cookies[b].state_id # Empty
            => /\ cookies[b].code_verifier # Empty
               /\ cookies[b].code_verifier
                      = logins[cookies[b].state_id].code_verifier

\* C14: the `state` parameter of every authorization redirect is the state_id
\* cookie its Login wrote, and a Login that redirects writes state_id and
\* code_verifier together; a Login that fails because no configuration is
\* stored has written state_id only; whenever a browser stores a
\* code_verifier, the state_id it stores comes from the same Login.
C14_SameLoginCookies ==
    /\ \A s \in Redirected : logins[s].request.state = s
    /\ LoginRedirected =>
          LET b == logins[resp.sid].browser
          IN  /\ b \in Browsers
              /\ cookies[b].state_id = resp.sid
              /\ logins[resp.sid].request.state = cookies[b].state_id
              /\ cookies[b].code_verifier = logins[resp.sid].code_verifier
    /\ (resp.handler = "login" /\ resp.error = "KeyError") =>
          \E b \in Browsers : /\ cookies[b].state_id = resp.sid
                               /\ cookies[b].code_verifier = Empty
    /\ \A b \in Browsers :
          cookies[b].code_verifier # Empty =>
              LET s == cookies[b].state_id
              IN  /\ s \in Redirected
                  /\ logins[s].browser = b
                  /\ logins[s].code_verifier = cookies[b].code_verifier
                  /\ logins[s].request.state = s

\* one browser holds the cookies of a Login that redirected while another
\* holds the state_id of a Login that failed
C14_Witness ==
    \E b1, b2 \in Browsers :
        /\ cookies[b1].state_id # Empty
        /\ cookies[b1].code_verifier = Empty
        /\ cookies[b2].code_verifier # Empty
        /\ cookies[b2].state_id \in Redirected

\* C15: the callback applies its checks in a fixed order and reports the
\* first that fails: the issuer's `error` argument, then a missing or empty
\* code, then a missing state_id cookie, then a missing or empty `state`
\* argument, then a state mismatch; a token exchange is started only when
\* none of the five holds.
C15_ValidationOrder ==
    (resp.handler = "callback" /\ resp.error # "Unauthenticated") =>
        IF resp.haserr THEN resp.error = "IssuerError"
        ELSE IF resp.code \in {Absent, Empty}
             THEN resp.error = (IF resp.code = Absent THEN "MissingArgument"
                                                      ELSE "NoCode")
        ELSE IF resp.sid = Empty THEN resp.error = "MissingStateCookie"
        ELSE IF resp.state \in {Absent, Empty}
             THEN resp.error = (IF resp.state = Absent THEN "MissingArgument"
                                                       ELSE "MissingStateArgument")
        ELSE IF resp.state # resp.sid THEN resp.error = "StateMismatch"
        ELSE resp.error \notin ClientErrors

\* a callback failed three checks at once and the first of them was reported
C15_Witness ==
    /\ resp.handler = "callback"
    /\ ~resp.haserr
    /\ resp.code = Empty
    /\ resp.sid = Empty
    /\ resp.state = Absent
    /\ resp.error = "NoCode"

\* C16: there is no automatic retry: a POST is issued only by a step that
\* takes up a new callback request, one POST for it; the step in which the
\* reply arrives issues none, and when the POST has failed it answers the
\* request with the failure and the request is over.
C16_NoRetry ==
    [][ /\ post' # post
            => /\ post'.n = post.n + 1
               /\ nreq' = nreq + 1
               /\ resp'.handler = "callback"
               /\ resp'.error = "pending"
               /\ nposts'[post'.state_id] = nposts[post'.state_id] + 1
        /\ ExchangeCompleted
            => /\ post' = post
               /\ nposts' = nposts
               /\ Cardinality(inflight') = Cardinality(inflight) - 1
               /\ resp'.token = Empty
                     => /\ resp'.error \in ExchangeErrors
                        /\ resp'.status = 500
                        /\ settings' = settings ]_vars

\* the only POST of a callback request failed and the request was answered
C16_Witness ==
    /\ resp.handler = "callback"
    /\ resp.error \in ExchangeErrors
    /\ post.n = 1
    /\ nposts[post.state_id] = 1
    /\ inflight = {}

\* C17: when the Launch before a Login carried no `launch` argument, the
\* `launch` parameter of the Login's authorization redirect is empty (the
\* parameter is always part of the query string, so it cannot be omitted);
\* when the Launch carried a hint, the redirect carries that hint.
C17_LaunchHintForwarded ==
    \A s \in Redirected :
        logins[s].request.launch =
            (IF logins[s].launch = Absent THEN "" ELSE ToString(logins[s].launch))

\* C18: a Login handled before any Launch has stored a discovered
\* configuration issues no authorization redirect; the endpoint every
\* authorization redirect goes to and its `aud` parameter are the
\* authorization endpoint and the FHIR base URL of one discovered
\* configuration, the one stored when the Login ran.
C18_RedirectFromDiscovery ==
    /\ (resp.handler = "login" /\ resp.error # "Unauthenticated"
         /\ settings.smart_config = NoConfig)
        => /\ resp.status = 500
           /\ resp.location = NoUri
           /\ resp.sid \notin Redirected
    /\ \A s \in Redirected :
          \E i \in Issuers :
              /\ logins[s].config = SMARTConfig_from_url(i)
              /\ logins[s].auth_url = SMARTConfig_from_url(i).auth_url
              /\ logins[s].request.aud = SMARTConfig_from_url(i).fhir_url
    /\ LoginRedirected
        => /\ resp.sid \in Redirected
           /\ logins[resp.sid].config = settings.smart_config
           /\ resp.location = Uri("authorize", settings.smart_config.auth_url,
                                  Absent)

\* a Login redirected after an earlier Login, handled before any Launch, had
\* failed
C18_Witness ==
    /\ LoginRedirected
    /\ \E s \in usedStates : s \notin Redirected

C20_NextUrlDefined ==
    /\ settings.smart_config # NoConfig => settings.next_url # NoUri
    /\ settings.smart_token # Empty => settings.next_url # NoUri
    /\ (resp.handler = "callback" /\ resp.token # Empty)
        => /\ resp.status = 302
           /\ resp.error = ""
           /\ resp.location # NoUri
           /\ resp.location = settings.next_url

\* a callback completed its exchange and redirected to the stored next_url
C20_Witness ==
    /\ CallbackSucceeded
    /\ resp.token # Empty
    /\ resp.location = settings.next_url
    /\ resp.location.path = smart_path
====
